---- MODULE Spec2Model ----
(***************************************************************************)
(* LectureFlow-Academic: the length-guarantee and continuation protocol.   *)
(*                                                                         *)
(* The module models the token-budget estimators, DeepSeekClient.chat,     *)
(* auto_extend_text, call_grok (with its DeepSeek fallback) and the two    *)
(* pipeline steps run_draft_step / run_revision_step.  Every provider      *)
(* request is one action: the request is sent and the provider's answer    *)
(* (a text with a finish reason, an HTTP error, or a raised error) is      *)
(* chosen nondeterministically.  Everything the code does between two      *)
(* requests is computed inside the action.                                 *)
(*                                                                         *)
(* Texts are sequences of one-character strings.                           *)
(***************************************************************************)
EXTENDS Integers, Sequences, FiniteSets, TLC

VARIABLES
    entry,             \* the function the run invokes
    args,              \* the arguments it is invoked with (text, max_tokens)
    model_name,        \* model_name argument / selected model
    target_length,     \* lecture["target_length"] (words)
    keys,              \* which API keys are configured
    length_left,       \* how many more length-limited finishes Grok may report
    pc,                \* position: the provider request that is pending
    phase,             \* "gen" (initial generation) or "exp" (expansion)
    draft,             \* the step's draft / revised variable
    expansion_prompt,  \* the expansion prompt built by the step
    chat_frame,        \* locals of the running DeepSeekClient.chat
    ext_frame,         \* locals of the running auto_extend_text
    grok_frame,        \* locals of the running call_grok
    first_chat,        \* what the step's initial chat call received
    last_request,      \* the provider request issued last
    requests,          \* requests issued in the current phase, by role
    outcome,           \* how the invoked function ended, and what it saved
    estimate,          \* results of the token-budget estimators
    route,             \* the client or call function an entry point selected
    chunker,           \* arguments and locals of split_text_into_chunks
    wizard             \* the wizard's session state and its running click

vars == <<entry, args, model_name, target_length, keys, length_left, pc, phase, draft,
          expansion_prompt, chat_frame, ext_frame, grok_frame, first_chat,
          last_request, requests, outcome, estimate, route, chunker, wizard>>

-----------------------------------------------------------------------------
(* Bounds of the model *)

\* target lengths 0..MaxSmallTarget are small enough for the modelled texts
\* to reach them
MaxSmallTarget == 3

\* length-limited finishes Grok may report during one pipeline step
StepLengthFinishes == 2

\* length-limited finishes Grok may report during one stand-alone call_grok
\* (more than the loop ever asks for)
GrokLengthFinishes == 12

\* split_text_into_chunks: the longest text, the largest chunk_size, and the
\* number of loop iterations followed
MaxTextLen == 6
MaxChunkSize == 4
MaxChunkIterations == 8

-----------------------------------------------------------------------------
(* Program constants *)

DEEPSEEK_SAFE_BOUNDARY == 7800
GROK_SAFE_BOUNDARY == 50000
CONTINUATION_CAP == 3000
MAX_ITERATIONS == 10
MIN_CONTINUATION_CHARS == 10
CALL_GROK_DEFAULT_MAX_TOKENS == 4096
CALL_DEEPSEEK_MAX_TOKENS == 4096
CHAT_DEFAULT_MAX_TOKENS == 4000
SAFE_DEFAULT_TOKENS == 2000
SAFE_MIN_DEFAULT == 6000
DEFAULT_TARGET_LENGTH == 4000

MODEL_REGISTRY ==
    {"grok-4-fast-reasoning", "grok-4-reasoning", "grok-4-fast", "grok-4",
     "deepseek-chat", "deepseek-reasoner", "gpt-4o-mini"}

\* model_name.startswith("grok")
StartsWithGrok(m) ==
    m \in {"grok-4-fast-reasoning", "grok-4-reasoning", "grok-4-fast", "grok-4"}

\* model_name.startswith("deepseek")
StartsWithDeepseek(m) == m \in {"deepseek-chat", "deepseek-reasoner"}

-----------------------------------------------------------------------------
(* Texts *)

None == <<"None">>

WhiteSpace == {" ", "\n"}

RECURSIVE rstrip(_)
rstrip(t) ==
    IF t = <<>> THEN <<>>
    ELSE IF t[Len(t)] \in WhiteSpace THEN rstrip(SubSeq(t, 1, Len(t) - 1))
    ELSE t

RECURSIVE lstrip(_)
lstrip(t) ==
    IF t = <<>> THEN <<>>
    ELSE IF t[1] \in WhiteSpace THEN lstrip(Tail(t))
    ELSE t

\* str.strip()
strip(t) == lstrip(rstrip(t))

\* len(text.split()): the number of maximal runs of non-whitespace characters
count_words(text) ==
    Cardinality({i \in 1..Len(text) :
        /\ text[i] \notin WhiteSpace
        /\ (i = 1 \/ text[i - 1] \in WhiteSpace)})

IsPrefix(p, t) == Len(p) <= Len(t) /\ SubSeq(t, 1, Len(p)) = p

Min(a, b) == IF a <= b THEN a ELSE b
Max(a, b) == IF a >= b THEN a ELSE b

T_empty == <<>>
T_impressi == <<"i", "m", "p", "r", "e", "s", "s", "i">>
T_ve == <<"v", "e", ".">>
T_hello == <<"H", "e", "l", "l", "o", " ", "w", "o", "r", "l", "d", ".">>

ERR_grok == <<"G", "r", "o", "k", " ", "A", "P", "I", " ", "e", "r", "r", "o", "r">>
ERR_grok_key ==
    <<"G", "r", "o", "k", " ", "A", "P", "I", " ", "e", "r", "r", "o", "r", ":", " ",
      "A", "P", "I", " ", "k", "e", "y", " ", "n", "o", "t", " ",
      "c", "o", "n", "f", "i", "g", "u", "r", "e", "d">>
ERR_deepseek_exc ==
    <<"D", "e", "e", "p", "S", "e", "e", "k", " ", "A", "P", "I", " ",
      "e", "r", "r", "o", "r", ":", " ", "t", "i", "m", "e", "o", "u", "t">>
ERR_deepseek_key ==
    <<"D", "e", "e", "p", "S", "e", "e", "k", " ", "A", "P", "I", " ",
      "e", "r", "r", "o", "r", ":", " ", "A", "P", "I", " ", "k", "e", "y", " ",
      "n", "o", "t", " ", "c", "o", "n", "f", "i", "g", "u", "r", "e", "d">>

ErrorMessages == {ERR_grok, ERR_grok_key, ERR_deepseek_exc, ERR_deepseek_key}

-----------------------------------------------------------------------------
(* Token-budget estimators.  An optional integer argument is <<>> (None,   *)
(* not given) or <<n>>.                                                    *)

\* a slip: the product is rounded to the nearest integer
approx_tokens_rounded(words) == (words * 16 + 5) \div 10

\* int(words * 1.6)
approx_tokens(words) == (words * 16) \div 10

\* int(words * 1.5)
approx_tokens_15(words) == (words * 3) \div 2

calculate_max_tokens(target_words) ==
    Min(approx_tokens(target_words), DEEPSEEK_SAFE_BOUNDARY)

safe_max_tokens(target_words, default_tokens) ==
    IF target_words # <<>>
    THEN Min(approx_tokens(target_words[1]), DEEPSEEK_SAFE_BOUNDARY)
    ELSE Min(Max(default_tokens, SAFE_MIN_DEFAULT), DEEPSEEK_SAFE_BOUNDARY)

\* "if target_words:" is false for None and for 0
Truthy(target_words) == target_words # <<>> /\ target_words[1] # 0

\* a slip: the Grok branch forgets its cap
get_max_tokens_for_model_uncapped(m, target_words) ==
    IF StartsWithGrok(m)
    THEN IF Truthy(target_words) THEN approx_tokens(target_words[1])
         ELSE GROK_SAFE_BOUNDARY
    ELSE IF Truthy(target_words)
         THEN Min(approx_tokens(target_words[1]), DEEPSEEK_SAFE_BOUNDARY)
         ELSE DEEPSEEK_SAFE_BOUNDARY

get_max_tokens_for_model(m, target_words) ==
    IF StartsWithGrok(m)
    THEN IF Truthy(target_words)
         THEN Min(approx_tokens(target_words[1]), GROK_SAFE_BOUNDARY)
         ELSE GROK_SAFE_BOUNDARY
    ELSE IF Truthy(target_words)
         THEN Min(approx_tokens(target_words[1]), DEEPSEEK_SAFE_BOUNDARY)
         ELSE DEEPSEEK_SAFE_BOUNDARY

\* the provider's hard per-call ceiling for a model
Ceiling(m) == IF StartsWithGrok(m) THEN GROK_SAFE_BOUNDARY ELSE DEEPSEEK_SAFE_BOUNDARY

-----------------------------------------------------------------------------
(* What the providers may answer *)

\* texts a provider returns: an empty reply, a text cut mid-word, a short
\* text and a text of more than MIN_CONTINUATION_CHARS characters, both with
\* a proper ending
RespTexts == {T_empty, T_impressi, T_ve, T_hello}

\* texts the Grok provider returns to a continuation request
GrokContTexts == {T_ve, T_hello}

\* DeepSeek (OpenAI client): a completion, or a raised error (network, HTTP)
DeepSeekResponses ==
    [status : {"ok"}, text : RespTexts, finish_reason : {"stop", "length"}]
    \cup {[status |-> "exception", text |-> <<>>, finish_reason |-> "none"]}

\* Grok (requests.post): status 200 with a completion, another status, or a
\* raised error (timeout, connection)
GrokResponses(texts) ==
    [status : {"ok"}, text : texts, finish_reason : {"stop", "length"}]
    \cup {[status |-> "http_error", text |-> <<>>, finish_reason |-> "none"],
          [status |-> "exception", text |-> <<>>, finish_reason |-> "none"]}

-----------------------------------------------------------------------------
(* Control state.  The operators below take the control state s (the       *)
(* record Cur of the program's variables) and return the control state at  *)
(* the next provider request, or at the end of the invoked function.       *)

NoChat == [caller |-> "none", max_tokens |-> 0, response_text |-> <<>>]
NoExt == [caller |-> "none", text |-> <<>>, max_tokens |-> 0]
NoGrok == [caller |-> "none", max_tokens |-> 0, full_text |-> <<>>,
           iteration |-> 0, segments |-> <<>>]
NoFirstChat == [response_text |-> None, finish_reason |-> "none",
                continuation |-> "none", continuation_text |-> None]
NoPrompt == [word_count |-> 0, missing |-> 0, text |-> None,
             forbids_shortening |-> FALSE]
Running == [status |-> "running", text |-> None, saved |-> None]
NoRequest == [provider |-> "none", role |-> "none", max_tokens |-> 0,
              status |-> "none", finish_reason |-> "none", has_text |-> FALSE]
NoRequests == [initial |-> 0, continuation |-> 0, expansion |-> 0, fallback |-> 0]
NoArgs == [text |-> None, max_tokens |-> 0]
NoRoute == [client |-> "none", function |-> "none"]
NoChunker == [text |-> <<>>, chunk_size |-> 0, overlap |-> 0, start |-> 0,
              iterations |-> 0, chunks |-> <<>>]
NoResult == [status |-> "none", text |-> None]
NoSession == [outline |-> None, brief_draft |-> None, draft |-> None,
              final |-> None, lecture_summary |-> None, glossary |-> None,
              gamma_prompt |-> None]
NoWizard == [session |-> NoSession, clicked |-> "none", calls |-> 0,
             first |-> NoResult, shown |-> "none"]
NoEstimate == [target_words |-> <<>>, default_tokens |-> 0,
               calculate_max_tokens |-> <<>>, safe_max_tokens |-> <<>>,
               get_max_tokens_for_model |-> <<>>]

Cur == [pc |-> pc, phase |-> phase, draft |-> draft,
        expansion_prompt |-> expansion_prompt, chat_frame |-> chat_frame,
        ext_frame |-> ext_frame, grok_frame |-> grok_frame,
        first_chat |-> first_chat, outcome |-> outcome]

Set(s) ==
    /\ pc' = s.pc
    /\ phase' = s.phase
    /\ draft' = s.draft
    /\ expansion_prompt' = s.expansion_prompt
    /\ chat_frame' = s.chat_frame
    /\ ext_frame' = s.ext_frame
    /\ grok_frame' = s.grok_frame
    /\ first_chat' = s.first_chat
    /\ outcome' = s.outcome

\* the invoked function returns text t, having written `file`
Returned(s, t, file) ==
    [s EXCEPT !.pc = "done", !.chat_frame = NoChat, !.ext_frame = NoExt,
              !.grok_frame = NoGrok, !.first_chat = NoFirstChat,
              !.outcome = [status |-> "returned", text |-> t, saved |-> file]]

\* the invoked function raises to its caller
Raised(s) ==
    [s EXCEPT !.pc = "done", !.chat_frame = NoChat, !.ext_frame = NoExt,
              !.grok_frame = NoGrok, !.first_chat = NoFirstChat,
              !.outcome = [status |-> "raised", text |-> None, saved |-> None]]

\* a slip: after the expansion the step goes back to the word-count check
step_check_again(s, t) ==
    [s EXCEPT !.draft = t, !.pc = "check", !.chat_frame = NoChat,
              !.ext_frame = NoExt, !.grok_frame = NoGrok]

\* the step saves its text and returns it
step_save_and_return(s, t) == Returned([s EXCEPT !.draft = t], t, t)

-----------------------------------------------------------------------------
(* auto_extend_text *)

\* the three non-ASCII marks of proper_endings, each one character of a text
RDQUO == "rdquo"
RAQUO == "raquo"
HELLIP == "hellip"

\* a slip: the list holds only the ASCII marks
proper_endings_ascii == {".", "!", "?", "\"", "\n"}

proper_endings == {".", "!", "?", "\"", RDQUO, RAQUO, HELLIP, "\n"}

\* a slip: only a text cut inside a word counts as cut off
ends_improperly_in_word(text_stripped) ==
    text_stripped[Len(text_stripped)] \in {"a", "e", "i", "k", "o", "s"}

\* the text does not end properly: a continuation is requested
ends_improperly(text_stripped) ==
    text_stripped[Len(text_stripped)] \notin proper_endings

\* continuation_max_tokens = min(3000, max_tokens)
auto_extend_max_tokens(max_tokens) == Min(CONTINUATION_CAP, max_tokens)

\* a slip: every non-empty continuation is appended
meaningful_continuation_nonempty(continuation) == continuation # <<>>

\* "if continuation and len(continuation.strip()) > 10"
meaningful_continuation(continuation) ==
    continuation # <<>> /\ Len(strip(continuation)) > MIN_CONTINUATION_CHARS

auto_extend_returns(s, t) ==
    IF s.ext_frame.caller = "entry" THEN Returned(s, t, None)
    ELSE IF s.phase = "gen"
    THEN [s EXCEPT !.draft = t, !.pc = "check", !.chat_frame = NoChat,
                   !.ext_frame = NoExt]
    ELSE step_save_and_return(s, t)

\* the call of auto_extend_text, up to its llm.chat request or its return
auto_extend_text(s, caller, initial_text, max_tokens) ==
    LET s1 == [s EXCEPT !.ext_frame = [caller |-> caller, text |-> initial_text,
                                       max_tokens |-> max_tokens]]
    IN  IF strip(initial_text) = <<>> THEN auto_extend_returns(s1, initial_text)
        ELSE IF ends_improperly(strip(initial_text))
        THEN [s1 EXCEPT !.pc = "chat",
                        !.chat_frame = [caller |-> "auto_extend_text",
                                        max_tokens |-> auto_extend_max_tokens(max_tokens),
                                        response_text |-> <<>>]]
        ELSE auto_extend_returns(s1, initial_text)

\* llm.chat returned `continuation` to auto_extend_text
auto_extend_resume(s, continuation) ==
    auto_extend_returns(s,
        IF meaningful_continuation(continuation)
        THEN s.ext_frame.text \o <<"\n", "\n">> \o continuation
        ELSE s.ext_frame.text)

\* llm.chat raised inside auto_extend_text: "return what we have"
auto_extend_failed(s) == auto_extend_returns(s, s.ext_frame.text)

-----------------------------------------------------------------------------
(* DeepSeekClient.chat *)

\* a slip: the test for an empty response is missing
chat_needs_continuation_any(finish_reason, response_text) ==
    finish_reason = "length"

\* a slip: a text that ends properly is not continued
chat_needs_continuation_unless_ended(finish_reason, response_text) ==
    /\ finish_reason = "length"
    /\ response_text # <<>>
    /\ response_text[Len(response_text)] \notin proper_endings

\* "if finish_reason == 'length' and response_text"
chat_needs_continuation(finish_reason, response_text) ==
    finish_reason = "length" /\ response_text # <<>>

\* continuation_max_tokens = min(3000, 7800 - max_tokens)
chat_continuation_max_tokens(max_tokens) ==
    Min(CONTINUATION_CAP, DEEPSEEK_SAFE_BOUNDARY - max_tokens)

\* chat returns t to its caller
chat_returns(s, t) ==
    CASE s.chat_frame.caller = "entry" -> Returned(s, t, None)
      [] s.chat_frame.caller = "auto_extend_text" -> auto_extend_resume(s, t)
      [] s.chat_frame.caller = "step" ->
            \* draft = llm_client.chat(...); draft = auto_extend_text(..., draft, max_tokens)
            auto_extend_text([s EXCEPT !.draft = t], "step", t, s.chat_frame.max_tokens)

\* chat raises Exception("DeepSeek API error: ...") to its caller
chat_raises(s) ==
    CASE s.chat_frame.caller = "entry" -> Raised(s)
      [] s.chat_frame.caller = "auto_extend_text" -> auto_extend_failed(s)
      [] s.chat_frame.caller = "step" -> Raised(s)

\* a slip: the failure of the continuation request is passed on to the caller
chat_continuation_failed_raises(s) == chat_raises(s)

\* the continuation request raised: "return response_text"
chat_continuation_failed(s) == chat_returns(s, s.chat_frame.response_text)

\* a slip: the continuation replaces the text received first
chat_continuation_done_replaces(s, continuation_text) ==
    chat_returns(s, continuation_text)

\* the continuation request answered: full_text = response_text + continuation_text
chat_continuation_done(s, continuation_text) ==
    chat_returns(s, s.chat_frame.response_text \o continuation_text)

\* the role of the first request of the running chat call
chat_role(s) ==
    CASE s.chat_frame.caller = "auto_extend_text" -> "continuation"
      [] s.chat_frame.caller = "step" /\ s.phase = "exp" -> "expansion"
      [] OTHER -> "initial"

\* a request is issued and answered by r
Issue(provider, role, max_tokens, r) ==
    /\ last_request' = [provider |-> provider, role |-> role, max_tokens |-> max_tokens,
                        status |-> r.status, finish_reason |-> r.finish_reason,
                        has_text |-> (r.text # <<>>)]
    /\ requests' = [requests EXCEPT ![role] = @ + 1]

IsStepGenChat == chat_frame.caller = "step" /\ phase = "gen"

\* self.client.chat.completions.create(...) of the first request
ChatRequest ==
    /\ pc = "chat"
    /\ \E r \in DeepSeekResponses :
        /\ Issue("deepseek", chat_role(Cur), chat_frame.max_tokens, r)
        /\ LET s1 == IF IsStepGenChat /\ r.status = "ok"
                  THEN [Cur EXCEPT !.first_chat.response_text = r.text,
                                   !.first_chat.finish_reason = r.finish_reason]
                  ELSE Cur
           IN  IF r.status = "exception" THEN Set(chat_raises(s1))
               ELSE IF chat_needs_continuation(r.finish_reason, r.text)
               THEN Set([s1 EXCEPT !.pc = "chat_cont",
                                   !.chat_frame.response_text = r.text])
               ELSE Set(chat_returns(s1, r.text))
    /\ UNCHANGED <<route, chunker, wizard, entry, args, model_name, target_length, keys, length_left, estimate>>

\* the continuation request of chat
ChatContinuation ==
    /\ pc = "chat_cont"
    /\ \E r \in DeepSeekResponses :
        /\ Issue("deepseek", "continuation",
                 chat_continuation_max_tokens(chat_frame.max_tokens), r)
        /\ LET s1 == IF IsStepGenChat
                  THEN [Cur EXCEPT
                          !.first_chat.continuation =
                              IF r.status = "ok" THEN "ok" ELSE "failed",
                          !.first_chat.continuation_text =
                              IF r.status = "ok" THEN r.text ELSE None]
                  ELSE Cur
           IN  IF r.status = "exception" THEN Set(chat_continuation_failed(s1))
               ELSE Set(chat_continuation_done(s1, r.text))
    /\ UNCHANGED <<route, chunker, wizard, entry, args, model_name, target_length, keys, length_left, estimate>>

-----------------------------------------------------------------------------
(* Stand-alone calls of DeepSeekClient.chat and auto_extend_text *)

\* max_tokens arguments: the defaults, the estimators' cap, and the budgets
\* the pipeline steps compute
MaxTokensArgs == {SAFE_DEFAULT_TOKENS, CHAT_DEFAULT_MAX_TOKENS, SAFE_MIN_DEFAULT,
                  DEEPSEEK_SAFE_BOUNDARY, approx_tokens_15(SAFE_MIN_DEFAULT)}

\* texts handed to auto_extend_text
InputTexts ==
    RespTexts \cup
    {<<" ">>, <<"\n">>, <<"o", "k", ".", " ", "\n">>, <<"o", "k", ",">>,
     <<"o", "k", "!">>, <<"o", "k", "?">>, <<"o", "k", "\"">>, <<"o", "k", RDQUO>>,
     <<"o", "k", RAQUO>>, <<"o", "k", HELLIP>>, <<"(", "1", ")">>, <<"1", "2">>,
     <<"o", "k", " ">>}

StartChat ==
    /\ pc = "start"
    /\ entry = "chat"
    /\ Set([Cur EXCEPT !.pc = "chat",
                       !.chat_frame = [caller |-> "entry",
                                       max_tokens |-> args.max_tokens,
                                       response_text |-> <<>>]])
    /\ UNCHANGED <<route, chunker, wizard, entry, args, model_name, target_length, keys, length_left,
                   last_request, requests, estimate>>

StartAutoExtend ==
    /\ pc = "start"
    /\ entry = "auto_extend_text"
    /\ Set(auto_extend_text(Cur, "entry", args.text, args.max_tokens))
    /\ UNCHANGED <<route, chunker, wizard, entry, args, model_name, target_length, keys, length_left,
                   last_request, requests, estimate>>

InitControl ==
    /\ pc = "start"
    /\ phase = "gen"
    /\ draft = None
    /\ expansion_prompt = NoPrompt
    /\ chat_frame = NoChat
    /\ ext_frame = NoExt
    /\ grok_frame = NoGrok
    /\ first_chat = NoFirstChat
    /\ last_request = NoRequest
    /\ requests = NoRequests
    /\ outcome = Running
    /\ estimate = NoEstimate

InitCommon ==
    /\ InitControl
    /\ route = NoRoute
    /\ chunker = NoChunker
    /\ wizard = NoWizard

\* a DeepSeekClient exists, so DEEPSEEK_API_KEY is configured
InitChat ==
    /\ InitCommon
    /\ entry \in {"chat", "auto_extend_text"}
    /\ args \in [text : IF entry = "chat" THEN {None} ELSE InputTexts,
                 max_tokens : MaxTokensArgs]
    /\ model_name = "deepseek-chat"
    /\ target_length = 0
    /\ keys = [deepseek |-> TRUE, grok |-> FALSE, openai |-> FALSE]
    /\ length_left = 0

NextChat == StartChat \/ StartAutoExtend \/ ChatRequest \/ ChatContinuation

SpecChat == InitChat /\ [][NextChat]_vars

-----------------------------------------------------------------------------
(* call_grok and its fallback call_deepseek *)

\* call_grok returns t to its caller
grok_returns(s, t) ==
    IF s.grok_frame.caller = "entry" THEN Returned(s, t, None)
    ELSE IF s.phase = "gen"
    THEN [s EXCEPT !.draft = t, !.pc = "check", !.grok_frame = NoGrok]
    ELSE \* draft = draft + "\n\n" + expansion_text
         step_save_and_return(s, s.draft \o <<"\n", "\n">> \o t)

\* call_deepseek(prompt), up to its request: without a key it returns a message
call_deepseek(s) ==
    IF ~keys.deepseek THEN grok_returns(s, ERR_deepseek_key)
    ELSE [s EXCEPT !.pc = "grok_fallback"]

\* the first request answered with a status other than 200: the fallback.
\* call_deepseek never raises, so the handlers around it that return
\* "Grok API error" are never entered.
grok_first_http_error(s) == call_deepseek(s)

\* a request of call_grok raised (timeout, connection error, bad JSON): the
\* outer handler falls back to call_deepseek(prompt)
grok_raised(s) == call_deepseek(s)

\* a continuation request answered with a status other than 200: break
grok_continue_http_error(s) == grok_returns(s, s.grok_frame.full_text)

\* a slip: the safety limit is tested after the tenth continuation
grok_cap_after(iteration) == iteration > MAX_ITERATIONS

\* a slip: the safety limit of the loop is missing
grok_cap_never(iteration) == FALSE

\* "if iteration >= 10: break"
grok_cap_reached(iteration) == iteration >= MAX_ITERATIONS

\* "while finish_reason == 'length'": the next continuation request, or the return
grok_while(s, finish_reason) ==
    IF finish_reason = "length"
    THEN [s EXCEPT !.pc = "grok_cont", !.grok_frame.iteration = @ + 1]
    ELSE grok_returns(s, s.grok_frame.full_text)

\* the first request answered with status 200
grok_first_ok(s, text, finish_reason) ==
    grok_while([s EXCEPT !.grok_frame.full_text = text,
                         !.grok_frame.segments = <<text>>,
                         !.grok_frame.iteration = 1],
               finish_reason)

\* a slip: the continuation replaces the accumulated text
grok_continue_ok_replaces(s, continuation, finish_reason) ==
    LET s1 == [s EXCEPT !.grok_frame.full_text = continuation,
                        !.grok_frame.segments = Append(@, continuation)]
    IN  IF grok_cap_reached(s.grok_frame.iteration)
        THEN grok_returns(s1, s1.grok_frame.full_text)
        ELSE grok_while(s1, finish_reason)

\* a continuation request answered with status 200
grok_continue_ok(s, continuation, finish_reason) ==
    LET s1 == [s EXCEPT !.grok_frame.full_text = @ \o <<" ">> \o continuation,
                        !.grok_frame.segments = Append(@, continuation)]
    IN  IF grok_cap_reached(s.grok_frame.iteration)
        THEN grok_returns(s1, s1.grok_frame.full_text)
        ELSE grok_while(s1, finish_reason)

\* the call of call_grok, up to its first request
call_grok(s, caller, max_tokens) ==
    LET s1 == [s EXCEPT !.grok_frame = [NoGrok EXCEPT !.caller = caller,
                                                      !.max_tokens = max_tokens]]
    IN  IF ~keys.grok THEN grok_returns(s1, ERR_grok_key)
        ELSE [s1 EXCEPT !.pc = "grok"]

grok_role(s) ==
    IF s.grok_frame.caller = "step" /\ s.phase = "exp" THEN "expansion" ELSE "initial"

\* the provider reports a length-limited finish only while length_left allows
Truncates(r) ==
    /\ r.finish_reason = "length" => length_left > 0
    /\ length_left' = IF r.finish_reason = "length" THEN length_left - 1
                      ELSE length_left

\* requests.post(...) of the first request
GrokRequest ==
    /\ pc = "grok"
    /\ \E r \in GrokResponses(RespTexts) :
        /\ Issue("grok", grok_role(Cur), grok_frame.max_tokens, r)
        /\ Truncates(r)
        /\ CASE r.status = "ok" -> Set(grok_first_ok(Cur, r.text, r.finish_reason))
             [] r.status = "http_error" -> Set(grok_first_http_error(Cur))
             [] r.status = "exception" -> Set(grok_raised(Cur))
    /\ UNCHANGED <<route, chunker, wizard, entry, args, model_name, target_length, keys, estimate>>

\* requests.post(...) of a continuation request of the auto-continue loop
GrokContinue ==
    /\ pc = "grok_cont"
    /\ \E r \in GrokResponses(GrokContTexts) :
        /\ Issue("grok", "continuation", grok_frame.max_tokens, r)
        /\ Truncates(r)
        /\ CASE r.status = "ok" -> Set(grok_continue_ok(Cur, r.text, r.finish_reason))
             [] r.status = "http_error" -> Set(grok_continue_http_error(Cur))
             [] r.status = "exception" -> Set(grok_raised(Cur))
    /\ UNCHANGED <<route, chunker, wizard, entry, args, model_name, target_length, keys, estimate>>

\* the request of call_deepseek: the content, or a message when it raised
GrokFallback ==
    /\ pc = "grok_fallback"
    /\ \E r \in DeepSeekResponses :
        /\ Issue("deepseek", "fallback", CALL_DEEPSEEK_MAX_TOKENS, r)
        /\ IF r.status = "ok" THEN Set(grok_returns(Cur, r.text))
           ELSE Set(grok_returns(Cur, ERR_deepseek_exc))
    /\ UNCHANGED <<route, chunker, wizard, entry, args, model_name, target_length, keys, length_left, estimate>>

StartGrok ==
    /\ pc = "start"
    /\ entry = "call_grok"
    /\ Set(call_grok(Cur, "entry", args.max_tokens))
    /\ UNCHANGED <<route, chunker, wizard, entry, args, model_name, target_length, keys, length_left,
                   last_request, requests, estimate>>

InitGrok ==
    /\ InitCommon
    /\ entry = "call_grok"
    /\ args = [NoArgs EXCEPT !.max_tokens = CALL_GROK_DEFAULT_MAX_TOKENS]
    /\ model_name = "grok-4-fast-reasoning"
    /\ target_length = 0
    /\ keys \in [deepseek : BOOLEAN, grok : BOOLEAN, openai : {FALSE}]
    /\ length_left = GrokLengthFinishes

NextGrok == StartGrok \/ GrokRequest \/ GrokContinue \/ GrokFallback

SpecGrok == InitGrok /\ [][NextGrok]_vars

-----------------------------------------------------------------------------
(* LecturePipeline.run_draft_step and run_revision_step.  The two steps    *)
(* differ in their prompts and in the file they write; the lecture exists. *)

is_grok(m) == StartsWithGrok(m)

\* get_llm_client(model_name) raises ValueError when the key of the selected
\* provider is missing (every non-grok name gets a DeepSeekClient)
get_llm_client_raises(m) ==
    IF StartsWithGrok(m) THEN ~keys.grok ELSE ~keys.deepseek

\* max_tokens = int(target_words * 1.5);
\* max_tokens = max(max_tokens, get_max_tokens_for_model(model_name, target_length))
step_max_tokens(m, target) ==
    Max(approx_tokens_15(target), get_max_tokens_for_model(m, <<target>>))

\* a slip: the shortfall is converted with the estimators' ratio
expansion_max_tokens_16(m, target, missing) ==
    Max(get_max_tokens_for_model(m, <<target>>), approx_tokens(missing))

\* expansion_max_tokens = get_max_tokens_for_model(model_name, target_length);
\* expansion_max_tokens = max(expansion_max_tokens, int(missing * 1.5))
expansion_max_tokens(m, target, missing) ==
    Max(get_max_tokens_for_model(m, <<target>>), approx_tokens_15(missing))

\* the expansion prompt: only run_revision_step adds "НЕ сокращай ..."
build_expansion_prompt(step, word_count, missing, text) ==
    [word_count |-> word_count, missing |-> missing, text |-> text,
     forbids_shortening |-> (step = "run_revision_step")]

\* the generation call of a step with the given budget
step_generate(s, max_tokens) ==
    IF is_grok(model_name) THEN call_grok(s, "step", max_tokens)
    ELSE [s EXCEPT !.pc = "chat",
                   !.chat_frame = [caller |-> "step", max_tokens |-> max_tokens,
                                   response_text |-> <<>>]]

\* the step up to its first provider request
step_start(s) ==
    IF get_llm_client_raises(model_name) THEN Raised(s)
    ELSE step_generate(s, step_max_tokens(model_name, target_length))

\* a slip: a text of exactly the target length is expanded too
needs_expansion_le(word_count, target) == word_count <= target

\* "if word_count < target_length"
needs_expansion(word_count, target) == word_count < target

\* the post-check of the word count: the expansion call, or save and return
step_check(s) ==
    LET word_count == count_words(s.draft)
        missing == target_length - word_count
    IN  IF needs_expansion(word_count, target_length)
        THEN step_generate(
                 [s EXCEPT !.phase = "exp", !.first_chat = NoFirstChat,
                           !.expansion_prompt =
                               build_expansion_prompt(entry, word_count, missing, s.draft)],
                 expansion_max_tokens(model_name, target_length, missing))
        ELSE step_save_and_return(s, s.draft)

StepEntries == {"run_draft_step", "run_revision_step"}

StartStep ==
    /\ pc = "start"
    /\ entry \in StepEntries
    /\ Set(step_start(Cur))
    /\ UNCHANGED <<route, chunker, wizard, entry, args, model_name, target_length, keys, length_left,
                   last_request, requests, estimate>>

Check ==
    /\ pc = "check"
    /\ Set(step_check(Cur))
    /\ requests' = IF needs_expansion(count_words(draft), target_length)
                   THEN NoRequests ELSE requests
    /\ UNCHANGED <<route, chunker, wizard, entry, args, model_name, target_length, keys, length_left,
                   last_request, estimate>>

\* models the steps are run with: a Grok model, a DeepSeek model and the
\* OpenAI fallback name
StepModels == {"grok-4-fast-reasoning", "deepseek-chat", "gpt-4o-mini"}

\* target lengths: the small ones, the default, and two the UI allows that
\* need more tokens than a provider accepts
StepTargets == (0..MaxSmallTarget) \cup {DEFAULT_TARGET_LENGTH, 6000, 40000}

\* a LecturePipeline exists, so DEEPSEEK_API_KEY is configured
InitStep ==
    /\ InitCommon
    /\ entry \in StepEntries
    /\ args = NoArgs
    /\ model_name \in StepModels
    /\ target_length \in StepTargets
    /\ keys \in [deepseek : {TRUE}, grok : BOOLEAN, openai : {FALSE}]
    /\ length_left = StepLengthFinishes

NextStep ==
    \/ StartStep
    \/ ChatRequest
    \/ ChatContinuation
    \/ GrokRequest
    \/ GrokContinue
    \/ GrokFallback
    \/ Check

SpecStep == InitStep /\ [][NextStep]_vars

-----------------------------------------------------------------------------
(* The entry points that select a provider: the constructor                *)
(* DeepSeekClient(), get_llm_client, the simple call functions             *)
(* call_deepseek and call_openai, and generate_text, which routes to them  *)
(* and to call_grok.                                                       *)

ERR_openai_key ==
    <<"O", "p", "e", "n", "A", "I", " ", "A", "P", "I", " ", "e", "r", "r",
      "o", "r", ":", " ", "A", "P", "I", " ", "k", "e", "y", " ", "n", "o",
      "t", " ", "c", "o", "n", "f", "i", "g", "u", "r", "e", "d">>
ERR_openai_exc ==
    <<"O", "p", "e", "n", "A", "I", " ", "A", "P", "I", " ", "e", "r", "r",
      "o", "r", ":", " ", "t", "i", "m", "e", "o", "u", "t">>

\* the client get_llm_client builds for a model name
get_llm_client(m) == IF StartsWithGrok(m) THEN "GrokClient" ELSE "DeepSeekClient"

\* the call function generate_text routes a model name to
generate_text_function(m) ==
    IF StartsWithGrok(m) THEN "call_grok"
    ELSE IF StartsWithDeepseek(m) THEN "call_deepseek"
    ELSE "call_openai"

\* the environment variable a simple call function reads
key_configured(function) ==
    IF function = "call_deepseek" THEN keys.deepseek ELSE keys.openai

\* the message a simple call function returns without its key
key_message(function) ==
    IF function = "call_deepseek" THEN ERR_deepseek_key ELSE ERR_openai_key

\* the message a simple call function returns when its request raised
error_message(function) ==
    IF function = "call_deepseek" THEN ERR_deepseek_exc ELSE ERR_openai_exc

\* call_deepseek / call_openai called on their own, up to the request:
\* without the key the message is returned as the response text
simple_call(s, function) ==
    IF ~key_configured(function) THEN Returned(s, key_message(function), None)
    ELSE [s EXCEPT !.pc = "simple"]

\* DeepSeekClient() and get_llm_client(model_name): ValueError without the
\* key, otherwise the client
Construct ==
    /\ pc = "start"
    /\ entry \in {"DeepSeekClient", "get_llm_client"}
    /\ LET m == IF entry = "DeepSeekClient" THEN "deepseek-chat" ELSE model_name
       IN  IF get_llm_client_raises(m)
           THEN Set(Raised(Cur)) /\ route' = route
           ELSE /\ Set(Returned(Cur, None, None))
                /\ route' = [route EXCEPT !.client = get_llm_client(m)]
    /\ UNCHANGED <<chunker, wizard, entry, args, model_name, target_length, keys,
                   length_left, last_request, requests, estimate>>

\* call_deepseek(prompt), call_openai(prompt) and generate_text(prompt,
\* model_name), up to the first request
StartCall ==
    /\ pc = "start"
    /\ entry \in {"call_deepseek", "call_openai", "generate_text"}
    /\ LET function == IF entry = "generate_text"
                       THEN generate_text_function(model_name) ELSE entry
       IN  /\ route' = [route EXCEPT !.function = function]
           /\ IF function = "call_grok"
              THEN Set(call_grok(Cur, "entry", args.max_tokens))
              ELSE Set(simple_call(Cur, function))
    /\ UNCHANGED <<chunker, wizard, entry, args, model_name, target_length, keys,
                   length_left, last_request, requests, estimate>>

\* client.chat.completions.create(...) of call_deepseek / call_openai: the
\* content, or the message when the request raised
SimpleRequest ==
    /\ pc = "simple"
    /\ \E r \in DeepSeekResponses :
        /\ Issue(IF route.function = "call_deepseek" THEN "deepseek" ELSE "openai",
                 "initial", CALL_DEEPSEEK_MAX_TOKENS, r)
        /\ IF r.status = "ok" THEN Set(Returned(Cur, r.text, None))
           ELSE Set(Returned(Cur, error_message(route.function), None))
    /\ UNCHANGED <<route, chunker, wizard, entry, args, model_name, target_length,
                   keys, length_left, estimate>>

RouteEntries ==
    {"DeepSeekClient", "get_llm_client", "call_grok", "call_deepseek",
     "call_openai", "generate_text"}

\* any entry point, any model of the registry, any set of configured keys
InitRoute ==
    /\ InitControl
    /\ route = NoRoute
    /\ chunker = NoChunker
    /\ wizard = NoWizard
    /\ entry \in RouteEntries
    /\ args = [NoArgs EXCEPT !.max_tokens = CALL_GROK_DEFAULT_MAX_TOKENS]
    /\ model_name \in (IF entry \in {"get_llm_client", "generate_text"}
                       THEN MODEL_REGISTRY
                       ELSE IF entry = "call_grok" THEN {"grok-4-fast-reasoning"}
                       ELSE IF entry = "call_openai" THEN {"gpt-4o-mini"}
                       ELSE {"deepseek-chat"})
    /\ target_length = 0
    /\ keys \in [deepseek : BOOLEAN, grok : BOOLEAN, openai : BOOLEAN]
    /\ length_left = StepLengthFinishes

NextRoute ==
    \/ Construct
    \/ StartCall
    \/ SimpleRequest
    \/ StartGrok
    \/ GrokRequest
    \/ GrokContinue
    \/ GrokFallback

SpecRoute == InitRoute /\ [][NextRoute]_vars

-----------------------------------------------------------------------------
(* The lecture wizard page, render_lecture_wizard_page: the generation     *)
(* buttons and what they keep in st.session_state.  A session key that is  *)
(* absent holds None; no handler deletes a key.                            *)

\* the session key a button writes
Stages == {"outline", "brief_draft", "draft", "final", "lecture_summary",
           "glossary", "gamma_prompt"}

\* the buttons that run a pipeline step with a word-count check
StepStages == {"draft", "final"}

\* a slip: the revision button tests the key the draft button tests
prerequisite_outline(stage) ==
    CASE stage = "outline" -> "none"
      [] stage \in {"brief_draft", "draft", "lecture_summary", "final"} -> "outline"
      [] stage \in {"glossary", "gamma_prompt"} -> "final"

\* the key of 'if "<key>" not in st.session_state: st.warning(...)'
prerequisite(stage) ==
    CASE stage = "outline" -> "none"
      [] stage \in {"brief_draft", "draft", "lecture_summary"} -> "outline"
      [] stage = "final" -> "draft"
      [] stage \in {"glossary", "gamma_prompt"} -> "final"

\* '"<key>" in st.session_state'
in_session(session, key) == key = "none" \/ session[key] # None

\* the prerequisite is missing: st.warning, nothing else
click_blocked(w, stage) ==
    [w EXCEPT !.clicked = stage, !.calls = 0, !.first = NoResult,
              !.shown = "warning"]

\* the handler calls its generation function
click_begin(w, stage) ==
    [w EXCEPT !.clicked = stage, !.calls = 1, !.first = NoResult,
              !.shown = "none"]

\* the handler's last statements: the text is stored and st.success is shown,
\* or the exception was caught and st.error is shown
click_finished(w, r) ==
    IF r.status = "raised" THEN [w EXCEPT !.shown = "error"]
    ELSE [w EXCEPT !.session[w.clicked] = r.text, !.shown = "success"]

\* "if word_count >= target_length: ... else: draft = pipeline.run_draft_step(...)"
wizard_runs_again(text, target) == ~(count_words(text) >= target)

\* the first run of the step came back with r
after_first_run(w, r, target) ==
    LET w1 == [w EXCEPT !.first = r]
    IN  IF r.status = "raised" THEN click_finished(w1, r)
        ELSE IF wizard_runs_again(r.text, target) THEN [w1 EXCEPT !.calls = 2]
        ELSE click_finished(w1, r)

\* the second run of the step came back with r
after_second_run(w, r) == click_finished(w, r)

\* a button without a word-count check, its generation call answered by r
click_simple(w, stage, r) ==
    IF ~in_session(w.session, prerequisite(stage)) THEN click_blocked(w, stage)
    ELSE click_finished(click_begin(w, stage), r)

\* the draft or the revision button, the runs of its step answered by r1, r2
click_step(w, stage, r1, r2, target) ==
    IF ~in_session(w.session, prerequisite(stage)) THEN click_blocked(w, stage)
    ELSE LET w1 == after_first_run(click_begin(w, stage), r1, target)
         IN  IF w1.shown = "none" THEN after_second_run(w1, r2) ELSE w1

\* texts a generation function returns to the wizard: one word, two words
WizardTexts == {T_impressi, T_hello}

\* a generation function returns a text or raises
WizardResults ==
    [status : {"returned"}, text : WizardTexts] \cup {[NoResult EXCEPT !.status = "raised"]}

ClickOutline ==
    /\ \E r \in WizardResults : wizard' = click_simple(wizard, "outline", r)
    /\ UNCHANGED <<route, chunker, entry, args, model_name, target_length, keys,
                   length_left, pc, phase, draft, expansion_prompt, chat_frame,
                   ext_frame, grok_frame, first_chat, last_request, requests,
                   outcome, estimate>>

\* the text area under the plan: the edited plan replaces the stored one
EditOutline ==
    /\ in_session(wizard.session, "outline")
    /\ \E t \in WizardTexts \cup {T_empty} :
        wizard' = [wizard EXCEPT !.session.outline = t, !.clicked = "none",
                                 !.calls = 0, !.first = NoResult, !.shown = "none"]
    /\ UNCHANGED <<route, chunker, entry, args, model_name, target_length, keys,
                   length_left, pc, phase, draft, expansion_prompt, chat_frame,
                   ext_frame, grok_frame, first_chat, last_request, requests,
                   outcome, estimate>>

ClickBriefDraft ==
    /\ \E r \in WizardResults : wizard' = click_simple(wizard, "brief_draft", r)
    /\ UNCHANGED <<route, chunker, entry, args, model_name, target_length, keys,
                   length_left, pc, phase, draft, expansion_prompt, chat_frame,
                   ext_frame, grok_frame, first_chat, last_request, requests,
                   outcome, estimate>>

ClickDraft ==
    /\ \E r1, r2 \in WizardResults :
        wizard' = click_step(wizard, "draft", r1, r2, target_length)
    /\ UNCHANGED <<route, chunker, entry, args, model_name, target_length, keys,
                   length_left, pc, phase, draft, expansion_prompt, chat_frame,
                   ext_frame, grok_frame, first_chat, last_request, requests,
                   outcome, estimate>>

ClickRevision ==
    /\ \E r1, r2 \in WizardResults :
        wizard' = click_step(wizard, "final", r1, r2, target_length)
    /\ UNCHANGED <<route, chunker, entry, args, model_name, target_length, keys,
                   length_left, pc, phase, draft, expansion_prompt, chat_frame,
                   ext_frame, grok_frame, first_chat, last_request, requests,
                   outcome, estimate>>

ClickSummary ==
    /\ \E r \in WizardResults : wizard' = click_simple(wizard, "lecture_summary", r)
    /\ UNCHANGED <<route, chunker, entry, args, model_name, target_length, keys,
                   length_left, pc, phase, draft, expansion_prompt, chat_frame,
                   ext_frame, grok_frame, first_chat, last_request, requests,
                   outcome, estimate>>

ClickGlossary ==
    /\ \E r \in WizardResults : wizard' = click_simple(wizard, "glossary", r)
    /\ UNCHANGED <<route, chunker, entry, args, model_name, target_length, keys,
                   length_left, pc, phase, draft, expansion_prompt, chat_frame,
                   ext_frame, grok_frame, first_chat, last_request, requests,
                   outcome, estimate>>

ClickGamma ==
    /\ \E r \in WizardResults : wizard' = click_simple(wizard, "gamma_prompt", r)
    /\ UNCHANGED <<route, chunker, entry, args, model_name, target_length, keys,
                   length_left, pc, phase, draft, expansion_prompt, chat_frame,
                   ext_frame, grok_frame, first_chat, last_request, requests,
                   outcome, estimate>>

\* target lengths of the lecture the wizard works on
WizardTargets == 1..MaxSmallTarget

\* a new session: the page is rendered, no button has been clicked
InitWizard ==
    /\ InitControl
    /\ route = NoRoute
    /\ chunker = NoChunker
    /\ wizard = NoWizard
    /\ entry = "render_lecture_wizard_page"
    /\ args = NoArgs
    /\ model_name = "deepseek-chat"
    /\ target_length \in WizardTargets
    /\ keys = [deepseek |-> TRUE, grok |-> FALSE, openai |-> FALSE]
    /\ length_left = 0

NextWizard ==
    \/ ClickOutline
    \/ EditOutline
    \/ ClickBriefDraft
    \/ ClickDraft
    \/ ClickRevision
    \/ ClickSummary
    \/ ClickGlossary
    \/ ClickGamma

SpecWizard == InitWizard /\ [][NextWizard]_vars

-----------------------------------------------------------------------------
(* split_text_into_chunks(text, chunk_size, overlap, separator="\n\n").     *)
(* Indices are Python's: the first character has index 0.                  *)

\* a bound of a Python slice: a negative one counts from the end, and both
\* are clipped to 0..len
slice_index(i, len) == IF i < 0 THEN Max(i + len, 0) ELSE Min(i, len)

\* text[a:b]
slice(text, a, b) ==
    LET lo == slice_index(a, Len(text))
        hi == slice_index(b, Len(text))
    IN  IF lo >= hi THEN <<>> ELSE SubSeq(text, lo + 1, hi)

\* the default separator
SEPARATOR == <<"\n", "\n">>

\* "separator in t"
contains(t, sep) ==
    \E p \in 0..(Len(t) - Len(sep)) : SubSeq(t, p + 1, p + Len(sep)) = sep

\* text.rfind(sep, a, b): the highest index of an occurrence of sep that lies
\* inside text[a:b], or -1
rfind(text, sep, a, b) ==
    LET lo == slice_index(a, Len(text))
        hi == slice_index(b, Len(text))
        found == {p \in lo..(hi - Len(sep)) : SubSeq(text, p + 1, p + Len(sep)) = sep}
    IN  IF found = {} THEN -1
        ELSE CHOOSE p \in found : \A q \in found : q <= p

\* "start = end - overlap"
next_start(start, end, overlap) == end - overlap

\* the end of the chunk that starts at c.start and does not reach the end of
\* the text: after the last separator of the window, or the window's end
chunk_end(c) ==
    LET end == c.start + c.chunk_size
        last_sep == rfind(c.text, SEPARATOR, c.start, end)
    IN  IF contains(slice(c.text, c.start, end), SEPARATOR) /\ last_sep > c.start
        THEN last_sep + Len(SEPARATOR)
        ELSE end

\* one iteration of "while start < len(text)": the last chunk and the break,
\* or a chunk and the start of the next one
chunk_iteration(c) ==
    IF c.start + c.chunk_size >= Len(c.text)
    THEN [c EXCEPT !.chunks = Append(@, slice(c.text, c.start, Len(c.text))),
                   !.iterations = @ + 1]
    ELSE [c EXCEPT !.chunks = Append(@, strip(slice(c.text, c.start, chunk_end(c)))),
                   !.start = next_start(c.start, chunk_end(c), c.overlap),
                   !.iterations = @ + 1]

\* the call, up to the loop: a text that fits into one chunk is returned whole
StartChunking ==
    /\ pc = "start"
    /\ entry = "split_text_into_chunks"
    /\ IF Len(chunker.text) <= chunker.chunk_size
       THEN /\ chunker' = [chunker EXCEPT !.chunks = <<chunker.text>>]
            /\ pc' = "done"
       ELSE /\ chunker' = [chunker EXCEPT !.chunks = <<>>, !.start = 0]
            /\ pc' = "chunk"
    /\ UNCHANGED <<route, wizard, entry, args, model_name, target_length, keys,
                   length_left, phase, draft, expansion_prompt, chat_frame,
                   ext_frame, grok_frame, first_chat, last_request, requests,
                   outcome, estimate>>

\* the while loop: one iteration, or its end
ChunkLoop ==
    /\ pc = "chunk"
    /\ chunker.iterations < MaxChunkIterations
    /\ IF chunker.start < Len(chunker.text)
       THEN /\ chunker' = chunk_iteration(chunker)
            /\ pc' = IF chunker.start + chunker.chunk_size >= Len(chunker.text)
                     THEN "done" ELSE "chunk"
       ELSE /\ pc' = "done"
            /\ UNCHANGED chunker
    /\ UNCHANGED <<route, wizard, entry, args, model_name, target_length, keys,
                   length_left, phase, draft, expansion_prompt, chat_frame,
                   ext_frame, grok_frame, first_chat, last_request, requests,
                   outcome, estimate>>

RECURSIVE TextsOfLen(_)
TextsOfLen(n) ==
    IF n = 0 THEN {<<>>}
    ELSE {Append(t, ch) : t \in TextsOfLen(n - 1), ch \in {"a", "\n"}}

\* the texts to split: every placement of line breaks in up to MaxTextLen characters
ChunkTexts == UNION {TextsOfLen(n) : n \in 0..MaxTextLen}

\* chunk_size > overlap >= 0
InitChunk ==
    /\ InitControl
    /\ route = NoRoute
    /\ wizard = NoWizard
    /\ entry = "split_text_into_chunks"
    /\ args = NoArgs
    /\ model_name = "deepseek-chat"
    /\ target_length = 0
    /\ keys = [deepseek |-> TRUE, grok |-> FALSE, openai |-> FALSE]
    /\ length_left = 0
    /\ \E text \in ChunkTexts, chunk_size \in 1..MaxChunkSize :
         \E overlap \in 0..(chunk_size - 1) :
            chunker = [NoChunker EXCEPT !.text = text, !.chunk_size = chunk_size,
                                        !.overlap = overlap]

NextChunk == StartChunking \/ ChunkLoop

SpecChunk == InitChunk /\ [][NextChunk]_vars

-----------------------------------------------------------------------------
(* One click on the draft or on the revision button of the wizard, with    *)
(* the runs of the pipeline step followed request by request.              *)

\* the session key of the button that runs the step
step_stage(step) == IF step = "run_draft_step" THEN "draft" ELSE "final"

\* the control state at a call of pipeline.run_draft_step / run_revision_step
FreshControl ==
    [pc |-> "start", phase |-> "gen", draft |-> None,
     expansion_prompt |-> NoPrompt, chat_frame |-> NoChat, ext_frame |-> NoExt,
     grok_frame |-> NoGrok, first_chat |-> NoFirstChat, outcome |-> Running]

\* the click: a warning when the prerequisite is missing, else the first run
ClickStepButton ==
    /\ pc = "start"
    /\ entry \in StepEntries
    /\ wizard.clicked = "none"
    /\ IF ~in_session(wizard.session, prerequisite(step_stage(entry)))
       THEN /\ wizard' = click_blocked(wizard, step_stage(entry))
            /\ UNCHANGED <<pc, phase, draft, expansion_prompt, chat_frame,
                           ext_frame, grok_frame, first_chat, outcome>>
       ELSE /\ wizard' = click_begin(wizard, step_stage(entry))
            /\ Set(step_start(Cur))
    /\ UNCHANGED <<route, chunker, entry, args, model_name, target_length, keys,
                   length_left, last_request, requests, estimate>>

\* a run of the step came back to the handler: the second run, or the end
StepReturned ==
    /\ pc = "done"
    /\ wizard.clicked \in StepStages
    /\ wizard.shown = "none"
    /\ LET r == [status |-> outcome.status, text |-> outcome.text]
           w == IF wizard.calls = 1 THEN after_first_run(wizard, r, target_length)
                ELSE after_second_run(wizard, r)
       IN  /\ wizard' = w
           /\ IF w.shown = "none"
              THEN /\ Set(step_start(FreshControl))
                   /\ last_request' = NoRequest
                   /\ requests' = NoRequests
              ELSE UNCHANGED <<pc, phase, draft, expansion_prompt, chat_frame,
                               ext_frame, grok_frame, first_chat, outcome,
                               last_request, requests>>
    /\ UNCHANGED <<route, chunker, entry, args, model_name, target_length, keys,
                   length_left, estimate>>

\* the lecture's target length at the click
ClickTargets == 1..MaxSmallTarget

\* sessions at the click: nothing generated yet, a plan, a plan and a draft
ClickSessions ==
    {NoSession, [NoSession EXCEPT !.outline = T_hello],
     [NoSession EXCEPT !.outline = T_hello, !.draft = T_hello]}

\* the page is rendered with a DeepSeek model selected
InitClick ==
    /\ InitControl
    /\ route = NoRoute
    /\ chunker = NoChunker
    /\ \E session \in ClickSessions : wizard = [NoWizard EXCEPT !.session = session]
    /\ entry \in StepEntries
    /\ args = NoArgs
    /\ model_name = "deepseek-chat"
    /\ target_length \in ClickTargets
    /\ keys = [deepseek |-> TRUE, grok |-> FALSE, openai |-> FALSE]
    /\ length_left = 0

NextClick ==
    \/ ClickStepButton
    \/ ChatRequest
    \/ ChatContinuation
    \/ Check
    \/ StepReturned

SpecClick == InitClick /\ [][NextClick]_vars

-----------------------------------------------------------------------------
(* The token-budget estimators on their own *)

\* target_words arguments: not given, a grid up to 40000 words, and the
\* values around which a product with 1.6 or 1.5 crosses a ceiling
EstTargets ==
    {125 * k : k \in 0..320} \cup (0..MaxSmallTarget)
    \cup {4874, 4875, 4876, 5199, 5200, 5201, 31249, 31250, 31251, 33333, 33334}

EstTargetArgs == {<<>>} \cup {<<n>> : n \in EstTargets}

\* default_tokens arguments of safe_max_tokens
EstDefaultArgs == {SAFE_DEFAULT_TOKENS, SAFE_MIN_DEFAULT, approx_tokens_15(SAFE_MIN_DEFAULT)}

\* the three estimators applied to the arguments chosen at the start;
\* calculate_max_tokens has no default for target_words
Estimate ==
    /\ pc = "start"
    /\ entry = "estimate"
    /\ pc' = "done"
    /\ estimate' = [estimate EXCEPT
          !.calculate_max_tokens =
              IF estimate.target_words = <<>> THEN <<>>
              ELSE <<calculate_max_tokens(estimate.target_words[1])>>,
          !.safe_max_tokens =
              <<safe_max_tokens(estimate.target_words, estimate.default_tokens)>>,
          !.get_max_tokens_for_model =
              <<get_max_tokens_for_model(model_name, estimate.target_words)>>]
    /\ UNCHANGED <<route, chunker, wizard, entry, args, model_name, target_length, keys, length_left, phase, draft,
                   expansion_prompt, chat_frame, ext_frame, grok_frame, first_chat,
                   last_request, requests, outcome>>

InitEst ==
    /\ pc = "start"
    /\ phase = "gen"
    /\ draft = None
    /\ expansion_prompt = NoPrompt
    /\ chat_frame = NoChat
    /\ ext_frame = NoExt
    /\ grok_frame = NoGrok
    /\ first_chat = NoFirstChat
    /\ last_request = NoRequest
    /\ requests = NoRequests
    /\ outcome = Running
    /\ route = NoRoute
    /\ chunker = NoChunker
    /\ wizard = NoWizard
    /\ entry = "estimate"
    /\ args = NoArgs
    /\ model_name \in MODEL_REGISTRY
    /\ target_length = 0
    /\ keys = [deepseek |-> TRUE, grok |-> TRUE, openai |-> FALSE]
    /\ length_left = 0
    /\ \E tw \in EstTargetArgs, d \in EstDefaultArgs :
          estimate = [NoEstimate EXCEPT !.target_words = tw, !.default_tokens = d]

NextEst == Estimate

SpecEst == InitEst /\ [][NextEst]_vars

-----------------------------------------------------------------------------
(* call_grok under the fairness its requests guarantee: every request is   *)
(* sent with timeout=300, so a pending request is answered or raises.      *)

SpecGrokFair == InitGrok /\ [][NextGrok]_vars /\ WF_vars(NextGrok)

-----------------------------------------------------------------------------
(* The two clients side by side: a run is a stand-alone call of            *)
(* DeepSeekClient.chat, of auto_extend_text or of call_grok.               *)

InitClients == InitChat \/ InitGrok

NextClients == NextChat \/ NextGrok

SpecClients == InitClients /\ [][NextClients]_vars

-----------------------------------------------------------------------------
(* The pipeline steps under the fairness their requests guarantee: a step  *)
(* runs synchronously to its end, the OpenAI client and requests.post      *)
(* (timeout=300) answer every pending request or raise.                    *)

SpecStepFair == InitStep /\ [][NextStep]_vars /\ WF_vars(NextStep)

-----------------------------------------------------------------------------
(* Properties *)

\* the text ends, after stripping, with one of the terminal marks
EndsWithTerminalMark(text) ==
    /\ strip(text) # <<>>
    /\ strip(text)[Len(strip(text))] \in {".", "!", "?", "\"", RDQUO, RAQUO, HELLIP}

\* the segments joined by single spaces, in order
RECURSIVE JoinSpace(_)
JoinSpace(segments) ==
    IF Len(segments) = 0 THEN <<>>
    ELSE IF Len(segments) = 1 THEN segments[1]
    ELSE JoinSpace(SubSeq(segments, 1, Len(segments) - 1))
         \o <<" ">> \o segments[Len(segments)]

\* a step returned after an expansion pass
ExpansionPerformed ==
    /\ entry \in StepEntries
    /\ pc = "done"
    /\ phase = "exp"
    /\ outcome.status = "returned"

\* C1 (as claimed): whenever a step performs an expansion pass, for grok and
\* non-grok models alike, the text the step returns and saves begins with the
\* complete text that existed before the expansion call.
C1_ExpansionKeepsPriorText ==
    ExpansionPerformed =>
        /\ IsPrefix(expansion_prompt.text, outcome.text)
        /\ IsPrefix(expansion_prompt.text, outcome.saved)

\* C2: when the continuation request raises inside DeepSeekClient.chat, or
\* when llm.chat raises inside auto_extend_text, the function does not raise
\* and returns exactly the text it held before that request was issued.
C2_ContinuationFailureKeepsText ==
    [][/\ (/\ pc = "chat_cont"
           /\ last_request'.status = "exception"
           /\ entry = "chat")
          => /\ pc' = "done"
             /\ outcome'.status = "returned"
             /\ outcome'.text = chat_frame.response_text
       /\ (/\ pc = "chat"
           /\ last_request'.status = "exception"
           /\ entry = "auto_extend_text")
          => /\ pc' = "done"
             /\ outcome'.status = "returned"
             /\ outcome'.text = ext_frame.text
       /\ (/\ pc = "chat_cont"
           /\ last_request'.status = "exception"
           /\ entry = "auto_extend_text")
          => /\ pc' = "done"
             /\ outcome'.status = "returned"
             /\ outcome'.text =
                  IF meaningful_continuation(chat_frame.response_text)
                  THEN ext_frame.text \o <<"\n", "\n">> \o chat_frame.response_text
                  ELSE ext_frame.text
      ]_vars

\* C2 witness: chat returned the text received first after its continuation
\* request raised
C2_Witness ==
    /\ entry = "chat"
    /\ pc = "done"
    /\ last_request.role = "continuation"
    /\ last_request.status = "exception"
    /\ outcome.status = "returned"
    /\ outcome.text = T_impressi

\* C3 (as claimed): when a continuation request of call_grok's loop fails, by
\* a status other than 200 or by a raised error, call_grok returns exactly
\* the text accumulated so far.
C3_GrokContinuationFailureKeepsText ==
    [][(/\ pc = "grok_cont"
        /\ last_request'.status \in {"http_error", "exception"})
       => /\ pc' = "done"
          /\ outcome'.status = "returned"
          /\ outcome'.text = grok_frame.full_text
      ]_vars

\* the first request of a step's generation or expansion call is pending
StepCallPending == (pc = "chat" /\ chat_frame.caller = "step") \/ pc = "grok"

\* C4 (as claimed): when the expansion request fails, the step returns and
\* saves the text obtained before the expansion, unchanged.
C4_ExpansionFailureKeepsText ==
    [][(/\ entry \in StepEntries
        /\ phase = "exp"
        /\ StepCallPending
        /\ last_request'.status # "ok")
       => /\ pc' = "done"
          /\ outcome' = [status |-> "returned", text |-> draft, saved |-> draft]
      ]_vars

\* C5 (as claimed): when the initial generation request fails, the step
\* raises: it returns no text and saves no file, for both providers.
C5_InitialFailureRaises ==
    [][(/\ entry \in StepEntries
        /\ phase = "gen"
        /\ StepCallPending
        /\ last_request'.status # "ok")
       => /\ pc' = "done"
          /\ outcome' = [status |-> "raised", text |-> None, saved |-> None]
      ]_vars

\* C6 (as claimed): the max_tokens sent with the initial generation request
\* and with the expansion request never exceeds the provider's ceiling, 7800
\* for non-grok models and 50000 for grok models.
C6_StepBudgetWithinCeiling ==
    (entry \in StepEntries /\ last_request.role \in {"initial", "expansion"})
    => last_request.max_tokens <=
          (IF StartsWithGrok(model_name) THEN 50000 ELSE 7800)

\* C7: for every target_words >= 0, and when it is not given, every
\* estimator returns at most its ceiling: 7800 for calculate_max_tokens,
\* safe_max_tokens and get_max_tokens_for_model with a non-grok model, 50000
\* for get_max_tokens_for_model with a grok model.
C7_EstimatesWithinCeiling ==
    (entry = "estimate" /\ pc = "done") =>
        /\ estimate.calculate_max_tokens # <<>>
              => estimate.calculate_max_tokens[1] <= 7800
        /\ estimate.safe_max_tokens[1] <= 7800
        /\ estimate.get_max_tokens_for_model[1] <=
              (IF StartsWithGrok(model_name) THEN 50000 ELSE 7800)

\* C7 witness: a grok model and a target whose estimate is cut to the ceiling
C7_Witness ==
    /\ entry = "estimate"
    /\ pc = "done"
    /\ StartsWithGrok(model_name)
    /\ estimate.target_words = <<33334>>
    /\ estimate.get_max_tokens_for_model = <<50000>>
    /\ estimate.calculate_max_tokens = <<7800>>

\* C8: call_grok never issues more than 10 continuation requests, and it
\* terminates whatever the provider answers.
C8_GrokLoopBounded ==
    /\ [](entry = "call_grok" => requests.continuation <= 10)
    /\ <>(pc = "done")

\* C8 witness: the provider reported a length-limited finish on every
\* response and call_grok stopped at its safety limit
C8_Witness ==
    /\ entry = "call_grok"
    /\ pc = "done"
    /\ outcome.status = "returned"
    /\ last_request.role = "continuation"
    /\ last_request.finish_reason = "length"
    /\ length_left > 0
    /\ requests.continuation = MAX_ITERATIONS - 1

\* C9: when the first k responses (k < 10) are length-limited and the next
\* one is a normal stop, all with status 200, call_grok has issued exactly k
\* continuation requests, stops, and returns the k+1 segments in the order
\* received (the code puts one space between two segments).
C9_GrokStopsAtNormalFinish ==
    [][(/\ entry = "call_grok"
        /\ pc \in {"grok", "grok_cont"}
        /\ last_request'.status = "ok"
        /\ last_request'.finish_reason = "stop")
       => /\ pc' = "done"
          /\ outcome'.status = "returned"
          /\ requests'.continuation = Len(grok_frame.segments)
          /\ requests'.continuation < 10
          /\ \E t \in RespTexts :
                outcome'.text = JoinSpace(Append(grok_frame.segments, t))
      ]_vars

\* C9 witness: three length-limited responses, then a normal stop
C9_Witness ==
    /\ entry = "call_grok"
    /\ pc = "done"
    /\ requests.continuation = 3
    /\ last_request.finish_reason = "stop"
    /\ outcome.text =
          T_impressi \o <<" ">> \o T_ve \o <<" ">> \o T_hello \o <<" ">> \o T_ve

\* the step's initial chat call received a non-empty, length-limited response
\* and the generation has reached the word-count check
TruncatedGenerationChecked ==
    /\ entry \in StepEntries
    /\ ~is_grok(model_name)
    /\ pc = "check"
    /\ first_chat.finish_reason = "length"
    /\ first_chat.response_text # <<>>

\* the initial text followed by the continuation text (nothing when the
\* continuation request raised)
InitialThenContinuation ==
    first_chat.response_text \o
        (IF first_chat.continuation = "ok" THEN first_chat.continuation_text ELSE <<>>)

\* C10 (as claimed): for the standard provider, a non-empty length-limited
\* initial response leads to exactly one continuation request, and the text
\* handed to the word-count check is the initial text followed by the
\* continuation text.
C10_ExactlyOneContinuation ==
    TruncatedGenerationChecked =>
        /\ requests.continuation = 1
        /\ draft = InitialThenContinuation

\* C10 (amended): the generation issues at least one and at most three
\* continuation requests and the text handed to the word-count check begins
\* with the initial text; when the continuation inside chat succeeded and the
\* initial text followed by the continuation text ends with a terminal mark,
\* exactly one continuation request is issued and that concatenation is the
\* text handed to the word-count check.
C10_OneContinuationWhenProperlyEnded ==
    TruncatedGenerationChecked =>
        /\ requests.continuation \in 1..3
        /\ IsPrefix(first_chat.response_text, draft)
        /\ (first_chat.continuation = "ok" /\ EndsWithTerminalMark(InitialThenContinuation))
              => /\ requests.continuation = 1
                 /\ draft = InitialThenContinuation

\* C10 witness: "impressi" cut by the token limit, continued once by "ve."
C10_Witness ==
    /\ TruncatedGenerationChecked
    /\ first_chat.response_text = T_impressi
    /\ first_chat.continuation = "ok"
    /\ first_chat.continuation_text = T_ve
    /\ requests.continuation = 1
    /\ draft = T_impressi \o T_ve

\* C11: when the word count of the text after the initial generation (and
\* its continuation) is at least target_length, the step issues no expansion
\* request and saves and returns that text unchanged; with target_length = 0
\* an expansion pass is never started, whatever the provider returns.
C11_NoExpansionWhenLongEnough ==
    /\ [][(/\ entry \in StepEntries
           /\ pc = "check"
           /\ count_words(draft) >= target_length)
          => /\ pc' = "done"
             /\ phase' = "gen"
             /\ requests' = requests
             /\ outcome' = [status |-> "returned", text |-> draft, saved |-> draft]
         ]_vars
    /\ []((entry \in StepEntries /\ target_length = 0)
            => (phase = "gen" /\ requests.expansion = 0))

\* C11 witness: target 2, the generation returned the two words
\* "Hello world." and the step returned them without an expansion
C11_Witness ==
    /\ entry \in StepEntries
    /\ target_length = 2
    /\ pc = "done"
    /\ phase = "gen"
    /\ requests.expansion = 0
    /\ outcome = [status |-> "returned", text |-> T_hello, saved |-> T_hello]

\* C12: a run of a step performs the expansion pass at most once, and
\* exactly once when the word count after the initial generation is below
\* target_length; after that pass the step never returns to the word-count
\* check, and every run reaches its end.
C12_SingleExpansionPass ==
    /\ [](entry \in StepEntries => requests.expansion <= 1)
    /\ []((entry \in StepEntries /\ phase = "exp" /\ pc = "done")
            => requests.expansion = 1)
    /\ [][(/\ entry \in StepEntries
           /\ pc = "check"
           /\ count_words(draft) < target_length)
          => (phase' = "exp" /\ pc' \in {"chat", "grok"})
         ]_vars
    /\ [][(entry \in StepEntries /\ phase = "exp")
          => (phase' = "exp" /\ pc' # "check")
         ]_vars
    /\ <>(pc = "done")

\* C12 witness: a step returned after its single expansion pass with a text
\* that is still shorter than the target
C12_Witness ==
    /\ entry \in StepEntries
    /\ pc = "done"
    /\ phase = "exp"
    /\ requests.expansion = 1
    /\ outcome.status = "returned"
    /\ count_words(outcome.text) < target_length

\* what the expansion call returned: for a grok model the part appended to
\* the prior text after "\n\n", otherwise the text assigned to the draft
ExpansionOutput ==
    IF is_grok(model_name)
    THEN SubSeq(outcome.text, Len(expansion_prompt.text) + 3, Len(outcome.text))
    ELSE outcome.text

\* C13 (as claimed): when the word count after the initial generation is
\* below target_length and the expansion call returns at least the missing
\* number of words, the text the step returns has at least target_length
\* words, for grok and non-grok models alike.
C13_ExpansionReachesTarget ==
    (ExpansionPerformed /\ count_words(ExpansionOutput) >= expansion_prompt.missing)
    => count_words(outcome.text) >= target_length

\* a request of DeepSeekClient.chat or of call_grok is pending and is
\* answered by a completion with a length-limited finish reason
LengthLimitedResponse ==
    /\ pc \in {"chat", "chat_cont", "grok", "grok_cont"}
    /\ last_request'.status = "ok"
    /\ last_request'.finish_reason = "length"

\* C14 (as claimed): whenever a provider response reports a length-limited
\* finish reason, DeepSeekClient.chat and call_grok issue a continuation
\* request, whatever the response text is, empty texts included.
C14_LengthFinishAlwaysContinues ==
    [][LengthLimitedResponse => pc' \in {"chat_cont", "grok_cont"}]_vars

\* C14 (amended): when the first response of DeepSeekClient.chat reports a
\* length-limited finish reason and its text is not empty, chat issues a
\* continuation request, whatever the text ends with; when a response of
\* call_grok with status 200 reports a length-limited finish reason,
\* call_grok issues a continuation request whatever the text is, empty
\* texts included, unless the response answers the continuation request of
\* the tenth iteration.
C14_LengthFinishContinues ==
    [][/\ (LengthLimitedResponse /\ pc = "chat" /\ last_request'.has_text)
          => /\ pc' = "chat_cont"
             /\ chat_frame'.max_tokens = chat_frame.max_tokens
       /\ (LengthLimitedResponse /\ pc \in {"grok", "grok_cont"}
            /\ grok_frame.iteration < MAX_ITERATIONS)
          => /\ pc' = "grok_cont"
             /\ grok_frame'.iteration = Max(grok_frame.iteration, 1) + 1
      ]_vars

\* C14 witness: the first response of chat ended with a full stop and a
\* length-limited finish reason, and the continuation request is pending
C14_Witness ==
    /\ entry = "chat"
    /\ pc = "chat_cont"
    /\ chat_frame.response_text = T_hello
    /\ last_request.role = "initial"
    /\ last_request.finish_reason = "length"

\* auto_extend_text is about to be called
AutoExtendCalled == pc = "start" /\ entry = "auto_extend_text"

\* auto_extend_text returns its input without having issued a request
ReturnsInputUnchanged ==
    /\ pc' = "done"
    /\ requests' = NoRequests
    /\ last_request' = NoRequest
    /\ outcome' = [status |-> "returned", text |-> args.text, saved |-> None]

\* C15: for every text whose last non-whitespace character is one of the
\* terminal marks . ! ? " and the closing quote, closing guillemet and
\* ellipsis, auto_extend_text issues no provider request and returns the
\* text unchanged.
C15_TerminalMarkIsComplete ==
    [][(AutoExtendCalled /\ EndsWithTerminalMark(args.text))
       => ReturnsInputUnchanged]_vars

\* C15 witness: a text ending with a closing guillemet came back unchanged
C15_Witness ==
    /\ entry = "auto_extend_text"
    /\ pc = "done"
    /\ args.text = <<"o", "k", RAQUO>>
    /\ requests = NoRequests
    /\ outcome.text = args.text

\* the input of auto_extend_text is not empty after stripping and does not
\* end with a terminal mark
InputCutOff == strip(args.text) # <<>> /\ ~EndsWithTerminalMark(args.text)

\* C16: for every non-empty text whose last non-whitespace character is not
\* a terminal mark, auto_extend_text treats the text as truncated and issues
\* exactly one continuation request: it calls llm.chat once, with at most
\* 3000 tokens, and never a second time.
C16_NonTerminalIsTruncated ==
    /\ [][(AutoExtendCalled /\ InputCutOff)
          => /\ pc' = "chat"
             /\ chat_frame' = [caller |-> "auto_extend_text",
                               max_tokens |-> Min(3000, args.max_tokens),
                               response_text |-> <<>>]
             /\ ext_frame'.text = args.text
         ]_vars
    /\ [][(entry = "auto_extend_text" /\ pc # "start") => pc' # "chat"]_vars
    /\ []((entry = "auto_extend_text" /\ InputCutOff /\ pc = "done")
            => (requests.initial = 0 /\ requests.continuation \in 1..2))

\* C16 witness: a text ending with a comma was continued by one request
C16_Witness ==
    /\ entry = "auto_extend_text"
    /\ pc = "done"
    /\ args.text = <<"o", "k", ",">>
    /\ requests.continuation = 1
    /\ outcome.text = args.text \o <<"\n", "\n">> \o T_hello

\* C17: for an empty or whitespace-only text auto_extend_text issues no
\* provider request and returns its input unchanged, and DeepSeekClient.chat
\* issues no continuation request for an empty response, whatever its
\* finish reason: chat returns the empty text.
C17_EmptyIsComplete ==
    [][/\ (AutoExtendCalled /\ strip(args.text) = <<>>) => ReturnsInputUnchanged
       /\ (/\ pc = "chat"
           /\ last_request'.status = "ok"
           /\ ~last_request'.has_text)
          => /\ pc' = "done"
             /\ requests' = [requests EXCEPT ![last_request'.role] = @ + 1]
             /\ outcome'.status = "returned"
             /\ outcome'.text = IF entry = "chat" THEN <<>> ELSE args.text
      ]_vars

\* C17 witness: chat received an empty response with a length-limited
\* finish reason and returned it without a continuation request
C17_Witness ==
    /\ entry = "chat"
    /\ pc = "done"
    /\ last_request.role = "initial"
    /\ last_request.status = "ok"
    /\ last_request.finish_reason = "length"
    /\ ~last_request.has_text
    /\ requests.continuation = 0
    /\ outcome.text = <<>>

\* a continuation request for the standard provider is pending: the one
\* auto_extend_text issues through llm.chat, or the one inside chat
StandardContinuationPending ==
    \/ pc = "chat" /\ chat_frame.caller = "auto_extend_text"
    \/ pc = "chat_cont"

\* the max_tokens of the call the pending continuation request continues
InitialCallMaxTokens ==
    IF pc = "chat_cont" THEN chat_frame.max_tokens ELSE ext_frame.max_tokens

\* C18 (as claimed): every continuation request for the standard provider,
\* the one issued inside DeepSeekClient.chat and the one issued by
\* auto_extend_text, uses max_tokens = min(3000, 7800 - max_tokens of the
\* initial call), so that the two budgets together never exceed 7800.
C18_ContinuationWithinRemainingBudget ==
    [][StandardContinuationPending
       => /\ last_request'.max_tokens = Min(3000, 7800 - InitialCallMaxTokens)
          /\ InitialCallMaxTokens + last_request'.max_tokens <= 7800
      ]_vars

\* the first request of a step's expansion call is pending
ExpansionRequestPending ==
    entry \in StepEntries /\ phase = "exp" /\ StepCallPending

\* the shortfall the expansion prompt states
Shortfall == target_length - count_words(expansion_prompt.text)

\* C19 (as claimed): the max_tokens of the expansion request equals
\* max(get_max_tokens_for_model(model_name, target_length), shortfall * 1.6),
\* the product taken with the estimators' truncation or rounded to the
\* nearest integer.
C19_ExpansionBudgetUsesEstimatorRatio ==
    [][ExpansionRequestPending
       => \E tokens \in {(Shortfall * 16) \div 10, (Shortfall * 16 + 5) \div 10} :
             last_request'.max_tokens =
                 Max(get_max_tokens_for_model(model_name, <<target_length>>), tokens)
      ]_vars

\* C19 (amended): the max_tokens of the expansion request equals
\* max(get_max_tokens_for_model(model_name, target_length),
\* int(shortfall * 1.5)), where shortfall = target_length - current word
\* count; the ratio is 1.5, not the estimators' 1.6.
C19_ExpansionBudget ==
    [][ExpansionRequestPending
       => /\ last_request'.role = "expansion"
          /\ expansion_prompt.missing = Shortfall
          /\ last_request'.max_tokens =
                 Max(get_max_tokens_for_model(model_name, <<target_length>>),
                     (Shortfall * 3) \div 2)
      ]_vars

\* C19 witness: target 6000 with a two-word draft; the shortfall of 5998
\* words decides the budget of the expansion request
C19_Witness ==
    /\ entry \in StepEntries
    /\ model_name = "deepseek-chat"
    /\ target_length = 6000
    /\ phase = "exp"
    /\ expansion_prompt.missing = 5998
    /\ last_request.role = "expansion"
    /\ last_request.max_tokens = 8997

\* the estimators were applied to a given target_words
EstimatedFor(tw) ==
    /\ entry = "estimate"
    /\ pc = "done"
    /\ estimate.target_words = <<tw>>

\* r is target_words * 1.6 cut to an integer and capped at the ceiling
TruncatedAndCapped(r, tw, ceiling) ==
    IF 16 * tw >= 10 * ceiling THEN r = ceiling
    ELSE 10 * r <= 16 * tw /\ 16 * tw < 10 * (r + 1)

\* C20 (as claimed): for every target_words >= 0, calculate_max_tokens and
\* get_max_tokens_for_model return min(round(target_words * 1.6), ceiling),
\* rounded to the nearest integer, with ceiling 7800 for non-grok models and
\* 50000 for grok models.
C20_EstimateIsRoundedProduct ==
    \A tw \in EstTargets :
        EstimatedFor(tw) =>
            /\ estimate.calculate_max_tokens[1] = Min((16 * tw + 5) \div 10, 7800)
            /\ estimate.get_max_tokens_for_model[1] =
                  Min((16 * tw + 5) \div 10,
                      IF StartsWithGrok(model_name) THEN 50000 ELSE 7800)

\* C20 (amended): for every target_words >= 0 calculate_max_tokens returns
\* min(int(target_words * 1.6), 7800), the product cut to an integer, not
\* rounded; get_max_tokens_for_model returns min(int(target_words * 1.6),
\* ceiling) for every target_words >= 1 and the ceiling itself for
\* target_words = 0, with ceiling 7800 for non-grok and 50000 for grok models.
C20_EstimateIsTruncatedProduct ==
    \A tw \in EstTargets :
        EstimatedFor(tw) =>
            /\ TruncatedAndCapped(estimate.calculate_max_tokens[1], tw, 7800)
            /\ LET ceiling == IF StartsWithGrok(model_name) THEN 50000 ELSE 7800
                   r == estimate.get_max_tokens_for_model[1]
               IN  IF tw = 0 THEN r = ceiling
                   ELSE TruncatedAndCapped(r, tw, ceiling)

\* C20 witness: 3 words give 4 tokens (4.8 cut, not rounded to 5)
C20_Witness ==
    /\ EstimatedFor(3)
    /\ estimate.calculate_max_tokens = <<4>>
    /\ estimate.get_max_tokens_for_model = <<4>>

\* C21 (as claimed): after a provider request failed with a timeout or a
\* network error, no further provider request is issued for the same call of
\* DeepSeekClient.chat, auto_extend_text or call_grok: the request is not
\* retried and not sent to another provider.
C21_NoRequestAfterNetworkFailure ==
    [][last_request.status = "exception"
       => (requests' = requests /\ last_request' = last_request)]_vars

\* the API key of the provider an entry point selects is not configured
SelectedKeyMissing ==
    CASE entry \in {"DeepSeekClient", "call_deepseek"} -> ~keys.deepseek
      [] entry = "call_grok" -> ~keys.grok
      [] entry = "call_openai" -> ~keys.openai
      [] entry = "get_llm_client" ->
            IF StartsWithGrok(model_name) THEN ~keys.grok ELSE ~keys.deepseek
      [] entry = "generate_text" ->
            IF StartsWithGrok(model_name) THEN ~keys.grok
            ELSE IF StartsWithDeepseek(model_name) THEN ~keys.deepseek
            ELSE ~keys.openai
      [] OTHER -> FALSE

\* C22 (as claimed): when the API key of the selected provider is not
\* configured, every generation entry point fails with an error before any
\* provider request is issued, and none returns text to its caller.
C22_MissingKeyFails ==
    (SelectedKeyMissing /\ pc = "done")
    => (outcome.status = "raised" /\ requests = NoRequests)

\* call_grok returned at the safety limit of its loop: every response had
\* status 200 and reported a length-limited finish, the last one included
GrokStoppedAtLimit ==
    /\ entry = "call_grok"
    /\ pc = "done"
    /\ outcome.status = "returned"
    /\ requests.fallback = 0
    /\ last_request.role = "continuation"
    /\ last_request.status = "ok"
    /\ last_request.finish_reason = "length"

\* C23 (as claimed): when every response is length-limited, call_grok performs
\* exactly 10 continuation requests before it returns the accumulated text.
C23_TenContinuations ==
    GrokStoppedAtLimit => requests.continuation = 10

\* C23 (amended): when every response is length-limited, call_grok performs
\* exactly 9 continuation requests, 10 requests with the first one, and then
\* returns the accumulated text.
C23_NineContinuations ==
    GrokStoppedAtLimit
    => /\ requests.continuation = MAX_ITERATIONS - 1
       /\ requests.initial + requests.continuation = MAX_ITERATIONS
       /\ outcome.text # None

\* C23 witness: ten requests, all length-limited, and the text is returned
C23_Witness ==
    /\ GrokStoppedAtLimit
    /\ requests.initial = 1
    /\ requests.continuation = 9
    /\ length_left = GrokLengthFinishes - 10

\* C24 (as claimed): every expansion prompt built by run_draft_step and by
\* run_revision_step states the current word count, states the shortfall with
\* the instruction to add at least that many words, and explicitly forbids
\* shortening the existing text.
C24_ExpansionPromptComplete ==
    [][(entry \in StepEntries /\ phase = "gen" /\ phase' = "exp")
       => /\ expansion_prompt'.text = draft
          /\ expansion_prompt'.word_count = count_words(draft)
          /\ expansion_prompt'.missing = target_length - count_words(draft)
          /\ expansion_prompt'.missing > 0
          /\ expansion_prompt'.forbids_shortening]_vars

\* the pipeline order of the stages: what must be in the session before the
\* stage can produce output
PipelineOrder ==
    [draft |-> "outline", final |-> "draft", glossary |-> "final",
     gamma_prompt |-> "final"]

\* C25: in the lecture wizard, for any sequence of button clicks, a draft is
\* generated only when an outline is in the session, a final text only when a
\* draft is, the glossary and the presentation prompt only when a final text
\* is; a click on a stage whose prerequisite is missing issues no generation
\* call and changes no session state.
C25_StagesInPipelineOrder ==
    /\ [](\A stage \in DOMAIN PipelineOrder :
            wizard.session[stage] # None
            => wizard.session[PipelineOrder[stage]] # None)
    /\ [][\A stage \in DOMAIN PipelineOrder :
            /\ wizard'.session[stage] # wizard.session[stage]
               => wizard.session[PipelineOrder[stage]] # None
            /\ (wizard' # wizard /\ wizard'.clicked = stage
                  /\ wizard.session[PipelineOrder[stage]] = None)
               => (wizard'.session = wizard.session /\ wizard'.calls = 0)]_vars

\* C25 witness: every stage of the pipeline has produced its output, the
\* presentation prompt last
C25_Witness ==
    /\ entry = "render_lecture_wizard_page"
    /\ wizard.clicked = "gamma_prompt"
    /\ wizard.shown = "success"
    /\ wizard.calls = 1
    /\ \A stage \in {"outline", "draft", "final", "glossary", "gamma_prompt"} :
          wizard.session[stage] # None

\* C26 (as claimed): on every iteration of the loop of split_text_into_chunks
\* that goes on to another iteration, the start index strictly increases and
\* never becomes negative, so the loop terminates for every text, every
\* placement of the separator and every chunk_size > overlap >= 0.
C26_StartStrictlyIncreases ==
    [][(pc = "chunk" /\ pc' = "chunk")
       => (chunker'.start > chunker.start /\ chunker'.start >= 0)]_vars

\* C27 (as claimed): every continuation request issued by DeepSeekClient.chat
\* carries max_tokens >= 1, whatever max_tokens the call was given: the
\* estimators' cap 7800 and the larger budgets of the pipeline steps included.
C27_ContinuationBudgetPositive ==
    [][pc = "chat_cont"
       => (last_request'.role = "continuation" /\ last_request'.max_tokens >= 1)]_vars

\* the handler of the draft or of the revision button has finished
StepClickFinished ==
    /\ entry \in StepEntries
    /\ wizard.clicked = step_stage(entry)
    /\ wizard.shown \in {"success", "error"}

\* C28 (as claimed): for one click on the draft button (likewise the revision
\* button) the pipeline step is run at most twice, and the text the wizard
\* keeps in the session afterwards is never shorter in words than the text
\* the first run of that click returned.
C28_KeptTextNotShorterThanFirstRun ==
    (StepClickFinished /\ wizard.first.status = "returned")
    => /\ wizard.calls <= 2
       /\ wizard.session[wizard.clicked] # None
       /\ count_words(wizard.session[wizard.clicked]) >= count_words(wizard.first.text)

\* the provider a model name stands for: grok names Grok, deepseek names
\* DeepSeek, every other name OpenAI
NamedProvider(m) ==
    IF StartsWithGrok(m) THEN "grok"
    ELSE IF StartsWithDeepseek(m) THEN "deepseek"
    ELSE "openai"

\* the provider behind a client class and behind a call function
ProviderOf ==
    [GrokClient |-> "grok", DeepSeekClient |-> "deepseek", call_grok |-> "grok",
     call_deepseek |-> "deepseek", call_openai |-> "openai"]

\* C29 (as claimed): for every model name of MODEL_REGISTRY, get_llm_client
\* and generate_text select the same provider: Grok for names starting with
\* grok, DeepSeek for names starting with deepseek, OpenAI for every other
\* name (gpt-4o-mini).
C29_SameProviderForModel ==
    /\ (entry = "get_llm_client" /\ route.client # "none")
       => ProviderOf[route.client] = NamedProvider(model_name)
    /\ (entry = "generate_text" /\ route.function # "none")
       => ProviderOf[route.function] = NamedProvider(model_name)

\* what auto_extend_text returned after the blank line that follows its input
AppendedContinuation ==
    SubSeq(outcome.text, Len(args.text) + 3, Len(outcome.text))

\* auto_extend_text returned its input, a blank line and a continuation of
\* more than 10 characters, surrounding white space not counted
ReturnsInputAndContinuation ==
    /\ Len(outcome.text) >= Len(args.text) + 2
    /\ SubSeq(outcome.text, 1, Len(args.text) + 2) = args.text \o <<"\n", "\n">>
    /\ Len(strip(AppendedContinuation)) > 10

\* C30: for every input text and every provider behaviour (success, empty
\* reply, raised error) auto_extend_text calls llm.chat at most once and
\* returns a string that begins with initial_text: initial_text unchanged, or
\* initial_text, a blank line and the continuation when the continuation's
\* stripped length is greater than 10 characters.
C30_AutoExtendAppendsOnce ==
    /\ []((entry = "auto_extend_text" /\ pc = "done")
          => /\ outcome.status = "returned"
             /\ IsPrefix(args.text, outcome.text)
             /\ (outcome.text = args.text \/ ReturnsInputAndContinuation))
    /\ [][(entry = "auto_extend_text" /\ pc # "chat" /\ pc' = "chat")
          => requests = NoRequests]_vars

\* C30 witness: the input was cut off, llm.chat was called and its two
\* requests together gave an 11-character continuation, which was appended
C30_Witness ==
    /\ entry = "auto_extend_text"
    /\ pc = "done"
    /\ args.text = T_impressi
    /\ requests.continuation = 2
    /\ outcome.text = T_impressi \o <<"\n", "\n">> \o T_impressi \o T_ve

====
